---- MODULE Spec2Model ----
(***************************************************************************)
(* Model of the Wolfram Alpha fallback skill (src/__init__.py):            *)
(*   EnglishQuestionParser.parse, WolframAlphaSkill.get_result,            *)
(*   process_wolfram_string, handle_fallback and handle_get_sources.       *)
(*                                                                         *)
(* A Python string is a sequence of one-character strings, so that regular *)
(* expressions, substring tests and slices are computed character by       *)
(* character.  Python's None is the value Null.                            *)
(***************************************************************************)
EXTENDS Integers, Sequences, FiniteSets, TLC

VARIABLES
    last_query,    \* self.last_query
    last_answer,   \* self.last_answer
    config,        \* what the host holds: settings, core configuration, language files
    op,            \* the operation that ran last: "init", "configure", "fallback", "sources"
    heard,         \* the normalized utterance it was given
    api,           \* what client.query did in it
    ret,           \* how it ended: "True", "False", "None", or the exception that escaped
    sent,          \* the [input, params] handed to client.query by it
    thought,       \* enclosure.mouth_think() was called by it
    emitted,       \* the bus messages emitted by it
    logged,        \* log.exception() was called by it
    spoken,        \* the texts handed to speak() by it
    emails,        \* the data of the emails sent by it
    dialogs,       \* the dialogs handed to speak_dialog() by it
    same,          \* last_query and last_answer were last written by one invocation
    answered,      \* <<input sent, text spoken>> of the latest invocation that spoke an answer
    f_in,          \* input of the function under study
    f_out,         \* its result
    f_pc           \* "start" before it ran, "done" after its last application

vars == << last_query, last_answer, config, op, heard, api, ret, sent, thought,
           emitted, logged, spoken, emails, dialogs, same, answered,
           f_in, f_out, f_pc >>

skill_vars == << last_query, last_answer, config, op, heard, api, ret, sent,
                 thought, emitted, logged, spoken, emails, dialogs, same,
                 answered >>

fn_vars == << f_in, f_out, f_pc >>

(***************************************************************************)
(* Strings                                                                 *)
(***************************************************************************)
Null == << "None" >>

SP == << " " >>

Cat3(a, b, c) == a \o b \o c

\* s[a..b] (1-based, inclusive); empty when b < a
Sub(s, a, b) == [k \in 1..(b - a + 1) |-> s[a + k - 1]]

\* w occurs in s starting at index i
StartsAt(s, i, w) ==
    /\ i >= 1
    /\ i + Len(w) - 1 <= Len(s)
    /\ \A k \in 1..Len(w) : s[i + k - 1] = w[k]

\* Python's  w in s
Contains(s, w) == \E i \in 1..(Len(s) + 1) : StartsAt(s, i, w)

\* Python's  ' '.join(ws)
RECURSIVE Join(_)
Join(ws) ==
    IF Len(ws) = 0 THEN << >>
    ELSE IF Len(ws) = 1 THEN ws[1]
    ELSE ws[1] \o SP \o Join(Tail(ws))

SetMax(S) == CHOOSE x \in S : \A y \in S : y <= x
SetMin(S) == CHOOSE x \in S : \A y \in S : x <= y

(***************************************************************************)
(* EnglishQuestionParser                                                   *)
(***************************************************************************)
who == << "w", "h", "o" >>
what == << "w", "h", "a", "t" >>
when == << "w", "h", "e", "n" >>
where == << "w", "h", "e", "r", "e" >>
why == << "w", "h", "y" >>
which == << "w", "h", "i", "c", "h" >>
whose == << "w", "h", "o", "s", "e" >>
how == << "h", "o", "w" >>
is == << "i", "s" >>
are == << "a", "r", "e" >>
was == << "w", "a", "s" >>
were == << "w", "e", "r", "e" >>

\* the alternations, in the order the patterns write them
QuestionWord1 == << who, what, when, where, why, which, whose >>
QuestionVerb1 == << is, are, was, were >>
QuestionWord2 == << who, what, when, where, why, which, how >>

\* "." matches every character but a newline
Dot(c) == c # "\n"

AllDot(s, a, b) == \A k \in a..b : Dot(s[k])

\* \w without re.UNICODE or re.LOCALE
WordChars ==
    { "a", "b", "c", "d", "e", "f", "g", "h", "i", "j", "k", "l", "m",
      "n", "o", "p", "q", "r", "s", "t", "u", "v", "w", "x", "y", "z",
      "A", "B", "C", "D", "E", "F", "G", "H", "I", "J", "K", "L", "M",
      "N", "O", "P", "Q", "R", "S", "T", "U", "V", "W", "X", "Y", "Z",
      "0", "1", "2", "3", "4", "5", "6", "7", "8", "9", "_" }

\* end of a greedy ".*" that starts at index a and is followed by nothing
DotRunEnd(s, a) ==
    IF \E k \in a..Len(s) : ~Dot(s[k])
    THEN SetMin({k \in a..Len(s) : ~Dot(s[k])}) - 1
    ELSE Len(s)

\* end of the greedy "\w+" that starts at index a (a - 1 when no word character)
WordRunEnd(s, a) ==
    IF \E k \in a..Len(s) : s[k] \notin WordChars
    THEN SetMin({k \in a..Len(s) : s[k] \notin WordChars}) - 1
    ELSE Len(s)

\* ".*(?P<QuestionWord>...) " : the places <<i, n>> where alternative n of the
\* question words starts at index i, after a prefix "." can match, before a space
WordHits(s, words) ==
    { h \in (1..Len(s)) \X DOMAIN words :
        /\ StartsAt(s, h[1], words[h[2]])
        /\ StartsAt(s, h[1] + Len(words[h[2]]), SP)
        /\ AllDot(s, 1, h[1] - 1) }

\* "(?P<Query1>.*) (?P<QuestionVerb>is|are|was|were) " after the question word
\* h: the places <<j, n>> of the space before alternative n of the verbs
VerbHits(s, h) ==
    LET a == h[1] + Len(QuestionWord1[h[2]]) + 1
    IN  { v \in (a..Len(s)) \X DOMAIN QuestionVerb1 :
            /\ StartsAt(s, v[1], SP)
            /\ StartsAt(s, v[1] + 1, QuestionVerb1[v[2]])
            /\ StartsAt(s, v[1] + 1 + Len(QuestionVerb1[v[2]]), SP)
            /\ AllDot(s, a, v[1] - 1) }

\* the backtracking order of re: the longest prefix first, then the
\* alternatives in the order written
FirstHit(H) ==
    LET i == SetMax({h[1] : h \in H})
    IN  << i, SetMin({h[2] : h \in {g \in H : g[1] = i}}) >>

NoMatch == [matched |-> FALSE]

\* regexes[0].match(utterance).groupdict()
Regex1(s) ==
    LET H == {h \in WordHits(s, QuestionWord1) : VerbHits(s, h) # {}}
    IN  IF H = {} THEN NoMatch
        ELSE LET h == FirstHit(H)
                 v == FirstHit(VerbHits(s, h))
                 a == h[1] + Len(QuestionWord1[h[2]]) + 1
                 b == v[1] + Len(QuestionVerb1[v[2]]) + 2
             IN  [matched |-> TRUE,
                  QuestionWord |-> QuestionWord1[h[2]],
                  Query1 |-> Sub(s, a, v[1] - 1),
                  QuestionVerb |-> QuestionVerb1[v[2]],
                  Query2 |-> Sub(s, b, DotRunEnd(s, b))]

\* regexes[1].match(utterance).groupdict()
Regex2(s) ==
    LET Ok(h) == LET a == h[1] + Len(QuestionWord2[h[2]]) + 1
                 IN  /\ WordRunEnd(s, a) >= a
                     /\ StartsAt(s, WordRunEnd(s, a) + 1, SP)
        H == {h \in WordHits(s, QuestionWord2) : Ok(h)}
    IN  IF H = {} THEN NoMatch
        ELSE LET h == FirstHit(H)
                 a == h[1] + Len(QuestionWord2[h[2]]) + 1
                 e == WordRunEnd(s, a)
             IN  [matched |-> TRUE,
                  QuestionWord |-> QuestionWord2[h[2]],
                  QuestionVerb |-> Sub(s, a, e),
                  Query |-> Sub(s, e + 2, DotRunEnd(s, e + 2))]

\* EnglishQuestionParser._normalize
Normalize(groupdict) ==
    IF "Query" \in DOMAIN groupdict
    THEN [matched |-> TRUE,
          QuestionWord |-> groupdict.QuestionWord,
          QuestionVerb |-> groupdict.QuestionVerb,
          Query |-> groupdict.Query]
    ELSE IF "Query2" \in DOMAIN groupdict
    THEN [matched |-> TRUE,
          QuestionWord |-> groupdict.QuestionWord,
          QuestionVerb |-> groupdict.QuestionVerb,
          Query |-> Join(<< groupdict.Query1, groupdict.Query2 >>)]
    ELSE NoMatch

\* (mutation: the two patterns listed in the other order)
RegexesSwapped(s) == << Regex2(s), Regex1(s) >>

\* the compiled patterns, in list order
Regexes(s) == << Regex1(s), Regex2(s) >>

\* EnglishQuestionParser.parse: None is NoMatch
Parse(utterance) ==
    LET ms == Regexes(utterance)
        hit == {n \in DOMAIN ms : ms[n].matched}
    IN  IF hit = {} THEN NoMatch ELSE Normalize(ms[SetMin(hit)])

(***************************************************************************)
(* The host's configuration and the skill instance after __init__          *)
(***************************************************************************)
\* settings["forward_location"], config_core["location"] (FALSE: None),
\* config_core["date_format"], config_core["system_unit"], and whether the
\* file regex/<lang>/list.rx is there
Config(forward_location, location, date_format, system_unit, list_rx) ==
    [forward_location |-> forward_location, location |-> location,
     date_format |-> date_format, system_unit |-> system_unit,
     list_rx |-> list_rx]

\* configurations that take every branch of handle_fallback that reads one
Configs ==
    { Config("false", TRUE, "MDY", "metric", TRUE),
      Config("true", TRUE, "DMY", "imperial", TRUE),
      Config("true", FALSE, "MDY", "metric", TRUE),
      Config("false", FALSE, "DMY", "metric", FALSE) }

DefaultConfig == Config("false", TRUE, "MDY", "metric", TRUE)

NoCall == [kind |-> "none", status |-> 0, res |-> [results |-> << >>, pods |-> << >>]]

SkillInit ==
    /\ last_query = Null
    /\ last_answer = Null
    /\ config = DefaultConfig
    /\ op = "init"
    /\ heard = << >>
    /\ api = NoCall
    /\ ret = "None"
    /\ sent = << >>
    /\ thought = FALSE
    /\ emitted = << >>
    /\ logged = FALSE
    /\ spoken = << >>
    /\ emails = << >>
    /\ dialogs = << >>
    /\ same = TRUE
    /\ answered = << >>

(***************************************************************************)
(* EnglishQuestionParser.parse applied to one utterance                    *)
(***************************************************************************)
MaxTokens == 5

nowhere == << "n", "o", "w", "h", "e", "r", "e" >>

Tokens == { what, whose, is, are, nowhere, << "y", "\n" >> }

\* the utterances: up to MaxTokens tokens joined by single spaces
Utterances == { Join(ts) : ts \in UNION { [1..n -> Tokens] : n \in 0..MaxTokens } }

ParseInit ==
    /\ SkillInit
    /\ f_in \in Utterances
    /\ f_out = NoMatch
    /\ f_pc = "start"

ParseStep ==
    /\ f_pc = "start"
    /\ f_out' = Parse(f_in)
    /\ f_pc' = "done"
    /\ UNCHANGED << f_in, skill_vars >>

ParseNext == ParseStep

SpecParse == ParseInit /\ [][ParseNext]_vars

\* the ways to read u as "<word> <subject> is <predicate>", <word> one of the
\* question words of the first pattern: <<n, j>>, n the word's place in
\* QuestionWord1 and j the index of the space before "is"
Forms(u) ==
    { d \in (DOMAIN QuestionWord1) \X (1..Len(u)) :
        /\ StartsAt(u, 1, QuestionWord1[d[1]])
        /\ StartsAt(u, Len(QuestionWord1[d[1]]) + 1, SP)
        /\ d[2] >= Len(QuestionWord1[d[1]]) + 2
        /\ StartsAt(u, d[2], Cat3(SP, is, SP)) }

Subject(u, d) == Sub(u, Len(QuestionWord1[d[1]]) + 2, d[2] - 1)

Predicate(u, d) == Sub(u, d[2] + 4, Len(u))

Expected(u, d) ==
    [matched |-> TRUE,
     QuestionWord |-> QuestionWord1[d[1]],
     QuestionVerb |-> is,
     Query |-> Cat3(Subject(u, d), SP, Predicate(u, d))]

\* no line break, no question word followed by a space in the subject, and no
\* space-delimited is/are/was/were in the predicate
Plain(u, d) ==
    /\ AllDot(u, 1, Len(u))
    /\ \A n \in DOMAIN QuestionWord1 :
         ~Contains(Subject(u, d), QuestionWord1[n] \o SP)
    /\ \A n \in DOMAIN QuestionVerb1 :
         ~Contains(SP \o Predicate(u, d), Cat3(SP, QuestionVerb1[n], SP))

PIDS ==
    << << "V", "a", "l", "u", "e" >>,
       << "N", "o", "t", "a", "b", "l", "e", "F", "a", "c", "t", "s", ":", "P", "e", "o", "p", "l", "e", "D", "a", "t", "a" >>,
       << "B", "a", "s", "i", "c", "I", "n", "f", "o", "r", "m", "a", "t", "i", "o", "n", ":", "P", "e", "o", "p", "l", "e", "D", "a", "t", "a" >>,
       << "D", "e", "f", "i", "n", "i", "t", "i", "o", "n" >>,
       << "D", "e", "c", "i", "m", "a", "l", "A", "p", "p", "r", "o", "x", "i", "m", "a", "t", "i", "o", "n" >> >>

\* Python's truth value of a text
Truthy(x) == x # Null /\ x # << >>

\* the slice s[:n]
Slice(s, n) == Sub(s, 1, IF Len(s) < n THEN Len(s) ELSE n)

\* __find_pod_id
FindPodId(pods, pod_id) ==
    LET K == {k \in DOMAIN pods : Contains(pods[k].id, pod_id)}
    IN  IF K = {} THEN Null ELSE pods[SetMin(K)].text

Pos200 == << "2", "0", "0" >>

\* __find_num(pods, '200'): [raised, value]; it raises KeyError at the first
\* pod without a position, unless a pod at position 200 comes before it
FindNum(pods, pod_num) ==
    LET K == {k \in DOMAIN pods :
                pods[k].position = Null \/ pods[k].position = pod_num}
    IN  IF K = {} THEN [raised |-> FALSE, value |-> Null]
        ELSE IF pods[SetMin(K)].position = Null
        THEN [raised |-> TRUE, value |-> Null]
        ELSE [raised |-> FALSE, value |-> pods[SetMin(K)].text]

\* (mutation: the pods decide the order, not PIDS)
PidLoopByPod(pods) ==
    LET K == {k \in DOMAIN pods :
                /\ \E n \in DOMAIN PIDS : Contains(pods[k].id, PIDS[n])
                /\ Truthy(pods[k].text)}
    IN  IF K = {} THEN Null ELSE Slice(pods[SetMin(K)].text, 5)

\* the value of result after "for pid in self.PIDS: ..."
PidLoop(pods) ==
    LET N == {n \in DOMAIN PIDS : Truthy(FindPodId(pods, PIDS[n]))}
    IN  IF N = {} THEN FindPodId(pods, PIDS[Len(PIDS)])
        ELSE Slice(FindPodId(pods, PIDS[SetMin(N)]), 5)

\* get_result
GetResult(res) ==
    IF Len(res.results) > 0 THEN res.results[1]
    ELSE LET result == PidLoop(res.pods)
             num == FindNum(res.pods, Pos200)
         IN  IF Truthy(result) THEN result
             ELSE IF num.raised THEN result
             ELSE num.value

(***************************************************************************)
(* get_result applied to one response                                      *)
(***************************************************************************)
MaxPods == 2

PodIds == { PIDS[1], PIDS[4] \o << ":", "W", "o", "r", "d", "D", "a", "t", "a" >>, << "I", "n", "p", "u", "t" >> }

Texts == { Null, << >>, << "v" >>, << "a", "b", "c", "d", "e", "f", "g" >> }

Positions == { Null, Pos200, << "1", "0", "0" >> }

Pods == [id : PodIds, text : Texts, position : Positions]

Responses ==
    [results : { << >>, << << "r" >> >> },
     pods : UNION { [1..n -> Pods] : n \in 0..MaxPods }]

ResultInit ==
    /\ SkillInit
    /\ f_in \in Responses
    /\ f_out = Null
    /\ f_pc = "start"

ResultStep ==
    /\ f_pc = "start"
    /\ f_out' = GetResult(f_in)
    /\ f_pc' = "done"
    /\ UNCHANGED << f_in, skill_vars >>

ResultNext == ResultStep

SpecResult == ResultInit /\ [][ResultNext]_vars

\* the priority ids that the id of some pod contains
Present(pods) ==
    {n \in DOMAIN PIDS : \E k \in DOMAIN pods : Contains(pods[k].id, PIDS[n])}

\* the priority ids whose first pod has a text that is not empty
Filled(pods) == {n \in Present(pods) : Truthy(FindPodId(pods, PIDS[n]))}

\* C8 as stated (already for the calls that return a non-empty text): without
\* a primary result, get_result returns the text (its first 5 characters) of
\* the first pod whose id contains the earliest priority id that the id of any
\* pod contains.
C8_AsStated ==
    (/\ f_pc = "done"
     /\ Len(f_in.results) = 0
     /\ Present(f_in.pods) # {}
     /\ Truthy(f_out)) =>
        LET text == FindPodId(f_in.pods, PIDS[SetMin(Present(f_in.pods))])
        IN  f_out = IF text = Null THEN Null ELSE Slice(text, 5)

\* C8 amended: without a primary result, get_result returns the first 5
\* characters of the text of the first pod whose id contains the earliest
\* priority id whose first such pod has a non-empty text; the order of PIDS
\* decides, not the order of the pods.
C8_PriorityOrder ==
    (f_pc = "done" /\ Len(f_in.results) = 0 /\ Filled(f_in.pods) # {}) =>
        f_out = Slice(FindPodId(f_in.pods, PIDS[SetMin(Filled(f_in.pods))]), 5)

\* pods [Definition..., Value]: the second pod's text is returned
C8_Witness ==
    /\ f_pc = "done"
    /\ Len(f_in.results) = 0
    /\ Len(f_in.pods) = 2
    /\ Contains(f_in.pods[1].id, PIDS[4])
    /\ f_in.pods[1].text = << "a", "b", "c", "d", "e", "f", "g" >>
    /\ f_in.pods[2].id = PIDS[1]
    /\ f_in.pods[2].text = << "v" >>
    /\ f_out = << "v" >>

(***************************************************************************)
(* WolframAlphaSkill.process_wolfram_string                                *)
(***************************************************************************)
\* \s without re.UNICODE ("\\v" stands for the vertical tab)
Whitespace == { " ", "\t", "\n", "\r", "\f", "\\v" }

\* end of the greedy "\s+" that starts at index a (a - 1 when no whitespace)
SpaceRunEnd(s, a) ==
    IF \E k \in a..Len(s) : s[k] \notin Whitespace
    THEN SetMin({k \in a..Len(s) : s[k] \notin Whitespace}) - 1
    ELSE Len(s)

\* (mutation: " \s" for " \s+")
RECURSIVE CollapseOneFrom(_, _)
CollapseOneFrom(s, i) ==
    IF i > Len(s) THEN << >>
    ELSE IF s[i] = " " /\ i < Len(s) /\ s[i + 1] \in Whitespace
    THEN SP \o CollapseOneFrom(s, i + 2)
    ELSE << s[i] >> \o CollapseOneFrom(s, i + 1)

\* re.sub(r" \s+", r" ", s) from index i on: leftmost matches, not overlapping
RECURSIVE CollapseFrom(_, _)
CollapseFrom(s, i) ==
    IF i > Len(s) THEN << >>
    ELSE IF s[i] = " " /\ SpaceRunEnd(s, i + 1) > i
    THEN SP \o CollapseFrom(s, SpaceRunEnd(s, i + 1) + 1)
    ELSE << s[i] >> \o CollapseFrom(s, i + 1)

\* re.sub(pat, rep, s) from index i on, for a pattern that is a literal
RECURSIVE ReplaceFrom(_, _, _, _)
ReplaceFrom(s, i, pat, rep) ==
    IF i > Len(s) THEN << >>
    ELSE IF StartsAt(s, i, pat)
    THEN rep \o ReplaceFrom(s, i + Len(pat), pat, rep)
    ELSE << s[i] >> \o ReplaceFrom(s, i + 1, pat, rep)

CommaSpace == << ",", " " >>

\* the four substitutions that come before the list pattern
Substitutions(text) ==
    LET t1 == CollapseFrom(text, 1)
        t2 == ReplaceFrom(t1, 1, << " ", "|", " " >>, CommaSpace)
        t3 == ReplaceFrom(t2, 1, << "\n" >>, CommaSpace)
    IN  ReplaceFrom(t3, 1, << "!" >>, << ",", "f", "a", "c", "t", "o", "r", "i", "a", "l" >>)

\* regex/<lang>/list.rx, a pattern with a group Definition that strips a
\* wrapper: everything of the first line up to its first colon
ListRegex(text) ==
    LET K == {k \in 1..Len(text) : text[k] = ":" /\ AllDot(text, 1, k - 1)}
    IN  IF K = {} THEN NoMatch
        ELSE [matched |-> TRUE,
              Definition |-> Sub(text, SetMin(K) + 1, DotRunEnd(text, SetMin(K) + 1))]

\* process_wolfram_string, the language's list.rx being there
ProcessWolframString(text) ==
    LET t == Substitutions(text)
        match == ListRegex(t)
    IN  IF match.matched THEN match.Definition ELSE t

(***************************************************************************)
(* process_wolfram_string applied to one text, and again to its result     *)
(***************************************************************************)
MaxText == 5

Chars == { "a", " ", "\t", "\n", ":" }

TextsIn == UNION { [1..n -> Chars] : n \in 0..MaxText }

CleanInit ==
    /\ SkillInit
    /\ f_in \in TextsIn
    /\ f_out = << >>
    /\ f_pc = "start"

CleanStep ==
    /\ f_pc = "start"
    /\ f_out' = << ProcessWolframString(f_in) >>
    /\ f_pc' = "once"
    /\ UNCHANGED << f_in, skill_vars >>

CleanAgainStep ==
    /\ f_pc = "once"
    /\ f_out' = Append(f_out, ProcessWolframString(f_out[1]))
    /\ f_pc' = "done"
    /\ UNCHANGED << f_in, skill_vars >>

CleanNext == CleanStep \/ CleanAgainStep

SpecClean == CleanInit /\ [][CleanNext]_vars

\* no pipe, newline or exclamation character
NoSeparators(text) == \A k \in 1..Len(text) : text[k] \notin { "|", "\n", "!" }

BuildParams(cfg) ==
    LET latlong == IF cfg.forward_location = "true"
                   THEN << << "latlong", "latitude,longitude" >> >>
                   ELSE << >>
        date == IF cfg.date_format = "MDY"
                THEN << << "assumption", "DateOrder_**Month.Day.Year--" >> >>
                ELSE << << "assumption", "DateOrder_**Day.Month.Year--" >> >>
        units == IF cfg.system_unit = "imperial"
                 THEN << << "units", "nonmetric" >> >>
                 ELSE << << "units", "metric" >> >>
    IN  IF cfg.forward_location = "true" /\ ~cfg.location
        THEN [raised |-> TRUE, params |-> << >>]
        ELSE [raised |-> FALSE, params |-> latlong \o date \o units]

\* what an invocation of handle_fallback does when nothing of it takes place
Nothing ==
    [ret |-> "None", call |-> NoCall, sent |-> << >>, thought |-> FALSE,
     emitted |-> << >>, logged |-> FALSE, spoken |-> << >>,
     write_query |-> << >>, write_answer |-> << >>]

\* (mutation: the thinking cue is given before the utterance is looked at)
NotAQuestionThinks == [Nothing EXCEPT !.ret = "False", !.thought = TRUE]

\* "Non-question, ignoring": return False
NotAQuestion == [Nothing EXCEPT !.ret = "False"]

\* (mutation: the pairing event is emitted, and the result falls through)
OnHTTPErrorFallsThrough(status) ==
    [emitted |-> IF status = 401 THEN << "mycroft.not.paired" >> ELSE << >>,
     logged |-> TRUE,
     ret |-> "False"]

\* except HTTPError as e
OnHTTPError(status) ==
    [emitted |-> IF status = 401 THEN << "mycroft.not.paired" >> ELSE << >>,
     logged |-> FALSE,
     ret |-> "True"]

\* except Exception as e
OnException == [emitted |-> << >>, logged |-> TRUE, ret |-> "False"]

\* (mutation: the utterance is remembered in place of the query)
OnResultKeepsUtterance(e, cfg, utterance, query, result) ==
    IF ~cfg.list_rx THEN [e EXCEPT !.ret = "IOError"]
    ELSE [e EXCEPT !.write_query = << utterance >>,
                   !.write_answer = << ProcessWolframString(result) >>,
                   !.spoken = << ProcessWolframString(result) >>,
                   !.ret = "True"]

\* (mutation: the query is remembered before the answer is cleaned)
OnResultRemembersFirst(e, cfg, utterance, query, result) ==
    IF ~cfg.list_rx THEN [e EXCEPT !.write_query = << query >>, !.ret = "IOError"]
    ELSE [e EXCEPT !.write_query = << query >>,
                   !.write_answer = << ProcessWolframString(result) >>,
                   !.spoken = << ProcessWolframString(result) >>,
                   !.ret = "True"]

\* "if result:" e is what the invocation did so far; open() raises IOError
\* when the language has no list.rx
OnResult(e, cfg, utterance, query, result) ==
    IF ~cfg.list_rx THEN [e EXCEPT !.ret = "IOError"]
    ELSE [e EXCEPT !.write_query = << query >>,
                   !.write_answer = << ProcessWolframString(result) >>,
                   !.spoken = << ProcessWolframString(result) >>,
                   !.ret = "True"]

\* (mutation: an empty result forgets the last answer)
OnNoResultForgets(e) ==
    [e EXCEPT !.ret = "NameError",
              !.write_query = << Null >>,
              !.write_answer = << Null >>]

\* "else: if len(others) > 0": the name others is bound nowhere
OnNoResult(e) == [e EXCEPT !.ret = "NameError"]

\* handle_fallback on the normalized utterance, client.query doing call
HandleFallback(utterance, cfg, call) ==
    LET parsed_question == Parse(utterance)
        query == Join(<< parsed_question.QuestionWord,
                         parsed_question.QuestionVerb,
                         parsed_question.Query >>)
        built == BuildParams(cfg)
        asked == [Nothing EXCEPT
                    !.thought = TRUE,
                    !.call = call,
                    !.sent = << [input |-> query, params |-> built.params] >>]
        Caught(e, x) == [e EXCEPT !.emitted = x.emitted,
                                  !.logged = x.logged,
                                  !.ret = x.ret]
    IN  IF ~parsed_question.matched THEN NotAQuestion
        ELSE IF built.raised THEN Caught(Nothing, OnException)
        ELSE IF call.kind = "HTTPError" THEN Caught(asked, OnHTTPError(call.status))
        ELSE IF call.kind = "Exception" THEN Caught(asked, OnException)
        ELSE IF Truthy(GetResult(call.res))
        THEN OnResult(asked, cfg, utterance, query, GetResult(call.res))
        ELSE OnNoResult(asked)

\* handle_get_sources: the data of the email, or nothing
GetSources(query, answer) ==
    IF Truthy(query)
    THEN << [query |-> query,
             answer |-> answer,
             url_query |-> ReplaceFrom(query, 1, SP, << "+" >>)] >>
    ELSE << >>

(***************************************************************************)
(* The skill under the host: utterances, source requests, configuration    *)
(***************************************************************************)
HeardUtterances ==
    { << "h", "i" >>,
      Join(<< what, << "x" >>, is, << "y" >> >>),
      Join(<< << "s", "o" >>, what, << "x" >>, are, << "y" >> >>),
      Join(<< how, is, << "x" >> >>) }

Response(results, pods) == [results |-> results, pods |-> pods]

Pod(id, text, position) == [id |-> id, text |-> text, position |-> position]

\* responses that take every branch of get_result and of process_wolfram_string
AnswerResponses ==
    { Response(<< << "4", "2" >> >>, << >>),
      Response(<< >>, << >>),
      Response(<< >>, << Pod(PIDS[4], << >>, Pos200),
                         Pod(PIDS[1], << "4", "!", " ", " ", "a", "b" >>, Pos200) >>),
      Response(<< >>, << Pod(<< "I", "n", "p", "u", "t" >>, << "x", ":", " ", "a", " ", "|", " ", "y" >>, Pos200) >>),
      Response(<< >>, << Pod(<< "I", "n", "p", "u", "t" >>, Null, Null) >>) }

Calls ==
    { [kind |-> "ok", status |-> 200, res |-> r] : r \in AnswerResponses }
    \cup { [NoCall EXCEPT !.kind = "HTTPError", !.status = 401],
           [NoCall EXCEPT !.kind = "HTTPError", !.status = 500],
           [NoCall EXCEPT !.kind = "Exception"] }

Init ==
    /\ SkillInit
    /\ f_in = << >>
    /\ f_out = << >>
    /\ f_pc = "start"

\* the host changes a setting, the core configuration or the language
Configure(cfg) ==
    /\ config' = cfg
    /\ op' = "configure"
    /\ heard' = << >>
    /\ api' = NoCall
    /\ ret' = "None"
    /\ sent' = << >>
    /\ thought' = FALSE
    /\ emitted' = << >>
    /\ logged' = FALSE
    /\ spoken' = << >>
    /\ emails' = << >>
    /\ dialogs' = << >>
    /\ UNCHANGED << last_query, last_answer, same, answered, fn_vars >>

\* the host hands an utterance to the fallback handler
Fallback(utterance, call) ==
    \E e \in { HandleFallback(utterance, config, call) } :
        /\ op' = "fallback"
        /\ heard' = utterance
        /\ api' = e.call
        /\ ret' = e.ret
        /\ sent' = e.sent
        /\ thought' = e.thought
        /\ emitted' = e.emitted
        /\ logged' = e.logged
        /\ spoken' = e.spoken
        /\ emails' = << >>
        /\ dialogs' = << >>
        /\ last_query' = IF e.write_query # << >> THEN e.write_query[1] ELSE last_query
        /\ last_answer' = IF e.write_answer # << >> THEN e.write_answer[1] ELSE last_answer
        /\ same' = IF e.write_query # << >> /\ e.write_answer # << >> THEN TRUE
                   ELSE IF e.write_query # << >> \/ e.write_answer # << >> THEN FALSE
                   ELSE same
        /\ answered' = IF e.ret = "True" /\ e.spoken # << >>
                       THEN << e.sent[1].input, e.spoken[1] >>
                       ELSE answered
        /\ UNCHANGED << config, fn_vars >>

\* the host hands a source request to the intent handler
Sources ==
    /\ op' = "sources"
    /\ heard' = << >>
    /\ api' = NoCall
    /\ ret' = "None"
    /\ sent' = << >>
    /\ thought' = FALSE
    /\ emitted' = << >>
    /\ logged' = FALSE
    /\ spoken' = << >>
    /\ emails' = GetSources(last_query, last_answer)
    /\ dialogs' = IF Truthy(last_query) THEN << "sent.email" >> ELSE << >>
    /\ UNCHANGED << last_query, last_answer, config, same, answered, fn_vars >>

Next ==
    \/ \E cfg \in Configs : Configure(cfg)
    \/ \E utterance \in HeardUtterances, call \in Calls : Fallback(utterance, call)
    \/ Sources

Spec == Init /\ [][Next]_vars

\* the last operation was handle_fallback on an utterance that parses as a question
Question == op = "fallback" /\ Parse(heard).matched

\* C1: when the utterance parses as a question and the query raises an HTTP
\* error of status 401, the handler emits mycroft.not.paired and returns True;
\* no exception escapes.
C1_PairingOn401 ==
    (Question /\ api.kind = "HTTPError" /\ api.status = 401) =>
        (emitted = << "mycroft.not.paired" >> /\ ret = "True")

C1_Witness ==
    /\ Question
    /\ api.kind = "HTTPError"
    /\ api.status = 401
    /\ thought
    /\ Len(sent) = 1
    /\ ret = "True"

\* C2 as stated: when the utterance parses as a question and the call
\* completes but get_result gives None or an empty text, the handler returns
\* False and no exception reaches the host.
C2_AsStated ==
    (Question /\ api.kind = "ok" /\ ~Truthy(GetResult(api.res))) => ret = "False"

\* the KeyError of a pod without a position, raised inside get_result
ExtractionRaised ==
    /\ api.kind = "ok"
    /\ Len(api.res.results) = 0
    /\ ~Truthy(PidLoop(api.res.pods))
    /\ FindNum(api.res.pods, Pos200).raised

\* C3 as stated: every exception raised while building the parameters,
\* calling the API or extracting the answer, other than an HTTP error of status
\* 401, is logged and makes the handler return False.
C3_AsStated ==
    (/\ Question
     /\ \/ BuildParams(config).raised
        \/ api.kind = "Exception"
        \/ api.kind = "HTTPError" /\ api.status # 401
        \/ ExtractionRaised) =>
        (logged /\ ret = "False")

\* C4: when handle_fallback ends in a spoken answer, last_query is the query
\* sent to the API and last_answer the text handed to speak; a later
\* handle_get_sources sends one email holding the query and the answer of the
\* latest invocation that spoke an answer.
C4_RecordedPair ==
    /\ (op = "fallback" /\ ret = "True" /\ spoken # << >>) =>
          /\ Len(sent) = 1
          /\ Len(spoken) = 1
          /\ last_query = sent[1].input
          /\ last_answer = spoken[1]
    /\ (op = "sources" /\ answered # << >>) =>
          /\ Len(emails) = 1
          /\ emails[1].query = answered[1]
          /\ emails[1].answer = answered[2]

C4_Witness ==
    /\ op = "sources"
    /\ answered # << >>
    /\ Len(emails) = 1
    /\ emails[1].url_query = << "w", "h", "a", "t", "+", "a", "r", "e", "+", "x", "+", "y" >>
    /\ emails[1].answer = << "4", ",", "f", "a", "c", "t", "o", "r", "i", "a", "l", " ", "a" >>

\* C5: in every state, last_answer is set only if last_query is, and the two
\* were last written by one invocation of handle_fallback.
C5_PairTogether ==
    /\ last_answer # Null => last_query # Null
    /\ same

C5_Witness ==
    /\ last_answer # Null
    /\ last_query # Null
    /\ op = "fallback"
    /\ ret = "IOError"

\* C6: when the parser returns None, handle_fallback returns False without a
\* query to the API, without the thinking cue and without speaking.
C6_Rejected ==
    (op = "fallback" /\ ~Parse(heard).matched) =>
        /\ ret = "False"
        /\ sent = << >>
        /\ ~thought
        /\ spoken = << >>
        /\ dialogs = << >>

C6_Witness ==
    /\ op = "fallback"
    /\ Len(heard) > 0
    /\ ~Parse(heard).matched
    /\ ret = "False"

\* C7: last_query and last_answer are None at the start, and a step changes
\* either only when it is a handle_fallback that returns True after speaking
\* an answer, and then to values that are not None.
C7_Frame ==
    /\ last_query = Null
    /\ last_answer = Null
    /\ [][(last_query' # last_query \/ last_answer' # last_answer) =>
            /\ op' = "fallback"
            /\ ret' = "True"
            /\ spoken' # << >>
            /\ last_query' # Null
            /\ last_answer' # Null]_vars

C7_Witness ==
    /\ last_query # Null
    /\ last_answer # Null
    /\ op = "fallback"
    /\ ret \in { "False", "NameError" }

====
